---- MODULE Spec2Model ----
(***************************************************************************)
(* flopy.modflow.mflmt.ModflowLmt: the Link-MT3DMS package of a MODFLOW    *)
(* model.  The package holds four scalar settings and a list of package    *)
(* flows, writes them to a keyword-per-line text file (write_file) and     *)
(* parses that layout back (load).                                         *)
(*                                                                         *)
(* Python strings are modelled as sequences of one-character strings, so   *)
(* that formatting, padding, case folding, splitting and integer parsing   *)
(* are computed character by character as the code computes them.  Python  *)
(* None is the empty tuple <<>> and a present value v is <<v>>.            *)
(***************************************************************************)
EXTENDS Integers, Sequences, FiniteSets, TLC

(***************************************************************************)
(* Bounds of the model.                                                    *)
(***************************************************************************)
\* packages constructed in one behaviour
MaxLmts == 2
\* length up to which a package_flows list is extended in place
MaxFlows == 2
\* lines of a generated input deck
MaxLines == 2

(***************************************************************************)
(* String literals of the source.                                          *)
(***************************************************************************)
K_output_file_name ==
    <<"o", "u", "t", "p", "u", "t", "_", "f", "i", "l", "e", "_", "n", "a", "m", "e">>
K_output_file_unit ==
    <<"o", "u", "t", "p", "u", "t", "_", "f", "i", "l", "e", "_", "u", "n", "i", "t">>
K_output_file_header ==
    <<"o", "u", "t", "p", "u", "t", "_", "f", "i", "l", "e", "_", "h", "e", "a", "d", "e", "r">>
K_output_file_format ==
    <<"o", "u", "t", "p", "u", "t", "_", "f", "i", "l", "e", "_", "f", "o", "r", "m", "a", "t">>
K_package_flows ==
    <<"p", "a", "c", "k", "a", "g", "e", "_", "f", "l", "o", "w", "s">>
S_sfr == <<"s", "f", "r">>
S_lak == <<"l", "a", "k">>
S_uzf == <<"u", "z", "f">>
S_SFR_ == <<"S", "F", "R", " ">>
S_LAK_ == <<"L", "A", "K", " ">>
S_UZF_ == <<"U", "Z", "F", " ">>
S_OUTPUT_FILE_NAME_ ==
    <<"O", "U", "T", "P", "U", "T", "_", "F", "I", "L", "E", "_", "N", "A", "M", "E", " ">>
S_OUTPUT_FILE_UNIT_ ==
    <<"O", "U", "T", "P", "U", "T", "_", "F", "I", "L", "E", "_", "U", "N", "I", "T", " ">>
S_OUTPUT_FILE_HEADER_ ==
    <<"O", "U", "T", "P", "U", "T", "_", "F", "I", "L", "E", "_", "H", "E", "A", "D", "E", "R", " ">>
S_OUTPUT_FILE_FORMAT_ ==
    <<"O", "U", "T", "P", "U", "T", "_", "F", "I", "L", "E", "_", "F", "O", "R", "M", "A", "T", " ">>
S_PACKAGE_FLOWS_ ==
    <<"P", "A", "C", "K", "A", "G", "E", "_", "F", "L", "O", "W", "S", " ">>
S_ftl == <<".", "f", "t", "l">>
S_mt3d_link_ftl ==
    <<"m", "t", "3", "d", "_", "l", "i", "n", "k", ".", "f", "t", "l">>
S_extended == <<"e", "x", "t", "e", "n", "d", "e", "d">>
S_unformatted == <<"u", "n", "f", "o", "r", "m", "a", "t", "t", "e", "d">>
S_standard == <<"s", "t", "a", "n", "d", "a", "r", "d">>
S_lmt6 == <<"l", "m", "t", "6">>
S_heading_package_for == <<" ", "p", "a", "c", "k", "a", "g", "e", " ", "f", "o", "r", " ">>
S_generated_by_Flopy ==
    <<"g", "e", "n", "e", "r", "a", "t", "e", "d", " ", "b", "y", " ", "F", "l", "o", "p", "y", ".">>

\* ModflowLmt.ftype()
ftype == <<"L", "M", "T", "6">>
\* ModflowLmt.defaultunit()
defaultunit == 30
\* load's default output_file_unit
LoadDefaultUnit == 333
\* __init__'s default output_file_unit
InitDefaultUnit == 54

None == <<>>
Some(v) == <<v>>

(***************************************************************************)
(* Python's str and int operations, as far as the module uses them.        *)
(***************************************************************************)
Whitespace == {" ", "\t", "\n", "\r"}
Digits == <<"0", "1", "2", "3", "4", "5", "6", "7", "8", "9">>
UpperCase ==
    <<"A", "B", "C", "D", "E", "F", "G", "H", "I", "J", "K", "L", "M",
      "N", "O", "P", "Q", "R", "S", "T", "U", "V", "W", "X", "Y", "Z">>
LowerCase ==
    <<"a", "b", "c", "d", "e", "f", "g", "h", "i", "j", "k", "l", "m",
      "n", "o", "p", "q", "r", "s", "t", "u", "v", "w", "x", "y", "z">>

\* F(v), with v evaluated once
With(v, F(_)) == CHOOSE r \in {F(x) : x \in {v}} : TRUE

\* the 1-based position of c in seq, 0 when absent
IndexIn(seq, c) ==
    IF \E i \in DOMAIN seq : seq[i] = c
    THEN CHOOSE i \in DOMAIN seq : seq[i] = c
    ELSE 0

\* the lower-case letter of each upper-case letter
ToLower == [c \in {UpperCase[i] : i \in DOMAIN UpperCase} |->
               LowerCase[IndexIn(UpperCase, c)]]

\* str.lower() of one character
lower_char(c) == IF c \in DOMAIN ToLower THEN ToLower[c] ELSE c

\* str.lower()
lower(s) == [i \in 1..Len(s) |-> lower_char(s[i])]

\* n blanks
Blanks(n) == [i \in 1..n |-> " "]

\* str.strip(): without the leading and trailing whitespace
strip(s) ==
    IF \A i \in DOMAIN s : s[i] \in Whitespace THEN <<>>
    ELSE SubSeq(s,
                CHOOSE i \in DOMAIN s :
                    s[i] \notin Whitespace /\ \A j \in 1..(i - 1) : s[j] \in Whitespace,
                CHOOSE i \in DOMAIN s :
                    s[i] \notin Whitespace /\ \A j \in (i + 1)..Len(s) : s[j] \in Whitespace)

\* the length of the first token of s, which starts with a non-whitespace
\* character: up to the first whitespace or the end
token_len(s) ==
    IF \A i \in DOMAIN s : s[i] \notin Whitespace THEN Len(s)
    ELSE (CHOOSE i \in DOMAIN s :
            s[i] \in Whitespace /\ \A j \in 1..(i - 1) : s[j] \notin Whitespace) - 1

\* str.split() without arguments: the maximal runs of non-whitespace
RECURSIVE split(_)
split(s) ==
    With(strip(s), LAMBDA t :
        IF t = <<>> THEN <<>>
        ELSE With(token_len(t), LAMBDA n :
                <<SubSeq(t, 1, n)>> \o split(SubSeq(t, n + 1, Len(t)))))

\* the length of the first line of a non-empty text, its terminator included
line_len(text) ==
    IF \A i \in DOMAIN text : text[i] # "\n" THEN Len(text)
    ELSE CHOOSE i \in DOMAIN text :
            text[i] = "\n" /\ \A j \in 1..(i - 1) : text[j] # "\n"

\* iteration over a text file: its lines, each with its line terminator
RECURSIVE readlines(_)
readlines(text) ==
    IF text = <<>> THEN <<>>
    ELSE With(line_len(text), LAMBDA n :
            <<SubSeq(text, 1, n)>> \o readlines(SubSeq(text, n + 1, Len(text))))

\* str.rfind(c) as a 0-based index, -1 when c does not occur
rfind(s, c) ==
    IF \E i \in DOMAIN s : s[i] = c
    THEN (CHOOSE i \in DOMAIN s : s[i] = c /\ \A j \in DOMAIN s : s[j] = c => j <= i) - 1
    ELSE -1

\* the slice s[:k]; a negative k counts from the end
slice_to(s, k) ==
    IF k >= 0
    THEN SubSeq(s, 1, IF k < Len(s) THEN k ELSE Len(s))
    ELSE SubSeq(s, 1, IF Len(s) + k > 0 THEN Len(s) + k ELSE 0)

\* os.path.basename: what follows the last "/"
basename(p) == SubSeq(p, rfind(p, "/") + 2, Len(p))

RECURSIVE digits_of(_)
digits_of(n) ==
    IF n < 10 THEN <<Digits[n + 1]>> ELSE Append(digits_of(n \div 10), Digits[(n % 10) + 1])

\* format(n, 'd')
str_int(n) == IF n < 0 THEN <<"-">> \o digits_of(0 - n) ELSE digits_of(n)

\* '{:20s}'.format(s): left-justified in a field of 20
format_20s(s) == IF Len(s) < 20 THEN s \o Blanks(20 - Len(s)) ELSE s

\* '{:10d}'.format(n): right-justified in a field of 10
format_10d(n) ==
    IF Len(str_int(n)) < 10 THEN Blanks(10 - Len(str_int(n))) \o str_int(n) ELSE str_int(n)

\* whether int(tok) succeeds: an optional sign and at least one digit
int_ok(tok) ==
    LET body == IF tok # <<>> /\ tok[1] \in {"+", "-"} THEN Tail(tok) ELSE tok
    IN  body # <<>> /\ \A i \in DOMAIN body : IndexIn(Digits, body[i]) # 0

RECURSIVE int_digits(_)
int_digits(ds) ==
    IF ds = <<>> THEN 0
    ELSE 10 * int_digits(SubSeq(ds, 1, Len(ds) - 1)) + (IndexIn(Digits, ds[Len(ds)]) - 1)

\* int(tok), for a tok with int_ok(tok)
int(tok) ==
    IF tok[1] = "-" THEN 0 - int_digits(Tail(tok))
    ELSE IF tok[1] = "+" THEN int_digits(Tail(tok))
    ELSE int_digits(tok)

(***************************************************************************)
(* The collaborators: the Package base class and the owning model.         *)
(***************************************************************************)
\* model.version_types[model.version] of the owning model
S_version == <<"M", "O", "D", "F", "L", "O", "W", "-", "2", "0", "0", "5">>
\* model.name of the owning model
S_modelname == <<"m", "o", "d", "f", "l", "o", "w", "t", "e", "s", "t">>

\* Package.__init__: the bookkeeping of extension, name, unit number and path
Package_init(extension, name, unit_number, filenames) ==
    [extension   |-> extension,
     name        |-> name,
     unit_number |-> unit_number,
     fn_path     |-> IF filenames[1] = None
                     THEN S_modelname \o <<".">> \o extension
                     ELSE filenames[1][1]]

\* model.add_package(p): p joins the model's package list
add_package(pl, p) == Append(pl, p)

\* model.get_ext_dict_attr(ext_unit_dict, filetype): (unit, filename) of the
\* entry of that file type, (None, None) when the table has none
get_ext_dict_attr(table, filetype) ==
    IF \E e \in table : e.filetype = filetype
    THEN LET e == CHOOSE e \in table : e.filetype = filetype
         IN  <<Some(e.unit), Some(e.filename)>>
    ELSE <<None, None>>

(***************************************************************************)
(* ModflowLmt.__init__                                                     *)
(***************************************************************************)
\* the filenames argument: None, one str, or a list
FnNone == [type |-> "None", val |-> <<>>]
FnStr(s) == [type |-> "str", val |-> s]
FnList(l) == [type |-> "list", val |-> l]

\* lines 80-83 and 91: fname = [filenames[0]]
fname_of(filenames) ==
    IF filenames.type = "None" THEN <<None>>
    ELSE IF filenames.type = "str" THEN <<Some(filenames.val)>>
    ELSE <<filenames.val[1]>>

\* lines 97-99
heading_of(name) ==
    <<"#", " ">> \o name[1] \o S_heading_package_for
        \o <<" ">> \o S_version \o <<",", " ">> \o S_generated_by_Flopy

\* the object __init__ builds; package_flows is the identity of a list object
ModflowLmt(output_file_name, output_file_unit, output_file_header, output_file_format, extension, package_flows, unitnumber, filenames) ==
    LET un == IF unitnumber = None THEN defaultunit ELSE unitnumber[1]
        pk == Package_init(extension, <<ftype>>, <<un>>, fname_of(filenames))
    IN  [extension          |-> pk.extension,
         name               |-> pk.name,
         unit_number        |-> pk.unit_number,
         fn_path            |-> pk.fn_path,
         heading            |-> heading_of(pk.name),
         output_file_name   |-> output_file_name,
         output_file_unit   |-> output_file_unit,
         output_file_header |-> output_file_header,
         output_file_format |-> output_file_format,
         package_flows      |-> package_flows]

\* a faulty line 106: the constructor forgets to register the package
parent_add_package_forgotten(pl, self) == pl

\* line 106: self.parent.add_package(self)
parent_add_package(pl, self) == add_package(pl, self)

(***************************************************************************)
(* ModflowLmt.write_file                                                   *)
(***************************************************************************)
\* a faulty lines 130-136: the recognized members in the order of the list
pckgs_of_listorder(package_flows) ==
    IF package_flows = <<>> THEN <<>>
    ELSE LET RECURSIVE each(_)
             each(l) ==
                 IF l = <<>> THEN <<>>
                 ELSE (IF lower(Head(l)) = S_sfr THEN S_SFR_
                       ELSE IF lower(Head(l)) = S_lak THEN S_LAK_
                       ELSE IF lower(Head(l)) = S_uzf THEN S_UZF_
                       ELSE <<>>) \o each(Tail(l))
         IN  each(package_flows)

\* lines 130-136: the recognized members, upper-cased, in the fixed order
pckgs_of(package_flows) ==
    (IF \E i \in DOMAIN package_flows : lower(package_flows[i]) = S_sfr
     THEN S_SFR_ ELSE <<>>)
    \o (IF \E i \in DOMAIN package_flows : lower(package_flows[i]) = S_lak
        THEN S_LAK_ ELSE <<>>)
    \o (IF \E i \in DOMAIN package_flows : lower(package_flows[i]) = S_uzf
        THEN S_UZF_ ELSE <<>>)

\* lines 128-139: the PACKAGE_FLOWS line, written for a non-empty list only
package_flows_text(package_flows) ==
    IF package_flows # <<>>
    THEN S_PACKAGE_FLOWS_ \o pckgs_of(package_flows) \o <<"\n">>
    ELSE <<>>

\* line 122-123
unit_text(output_file_unit) ==
    format_20s(S_OUTPUT_FILE_UNIT_) \o <<" ">> \o format_10d(output_file_unit) \o <<"\n">>

\* a faulty lines 120-121: no blank between the key and the name
name_text_nospace(output_file_name) ==
    format_20s(SubSeq(S_OUTPUT_FILE_NAME_, 1, Len(S_OUTPUT_FILE_NAME_) - 1)
               \o output_file_name) \o <<"\n">>

\* lines 120-121
name_text(output_file_name) ==
    format_20s(S_OUTPUT_FILE_NAME_ \o output_file_name) \o <<"\n">>

\* lines 119-139: everything write_file writes; package_flows is the list's content
write_text(self, package_flows) ==
    self.heading \o <<"\n">>
    \o name_text(self.output_file_name)
    \o unit_text(self.output_file_unit)
    \o format_20s(S_OUTPUT_FILE_HEADER_ \o self.output_file_header) \o <<"\n">>
    \o format_20s(S_OUTPUT_FILE_FORMAT_ \o self.output_file_format) \o <<"\n">>
    \o package_flows_text(package_flows)

(***************************************************************************)
(* ModflowLmt.load                                                         *)
(***************************************************************************)
\* lines 180-182: the default output_file_name of a load from path f
default_output_file_name(f) ==
    slice_to(basename(f), rfind(basename(f), ".")) \o S_ftl

\* lines 180-186: the values load starts from; err is the exception raised
load_defaults(f) ==
    [output_file_name   |-> default_output_file_name(f),
     output_file_unit   |-> LoadDefaultUnit,
     output_file_header |-> S_standard,
     output_file_format |-> S_unformatted,
     package_flows      |-> <<>>,
     err                |-> ""]

\* a faulty lines 198-210: a unit that is no integer is read as 0
load_tokens_zero(acc, t) ==
    IF lower(t[1]) = K_output_file_name
    THEN [acc EXCEPT !.output_file_name = t[2]]
    ELSE IF lower(t[1]) = K_output_file_unit
    THEN [acc EXCEPT !.output_file_unit = IF int_ok(t[2]) THEN int(t[2]) ELSE 0]
    ELSE IF lower(t[1]) = K_output_file_header
    THEN [acc EXCEPT !.output_file_header = t[2]]
    ELSE IF lower(t[1]) = K_output_file_format
    THEN [acc EXCEPT !.output_file_format = t[2]]
    ELSE IF lower(t[1]) = K_package_flows
    THEN [acc EXCEPT !.package_flows = @ \o Tail(t)]
    ELSE acc

\* a faulty lines 198-210: a line with an unknown key sets the name
load_tokens_anykey(acc, t) ==
    IF lower(t[1]) = K_output_file_unit
    THEN IF int_ok(t[2])
         THEN [acc EXCEPT !.output_file_unit = int(t[2])]
         ELSE [acc EXCEPT !.err = "ValueError"]
    ELSE IF lower(t[1]) = K_output_file_header
    THEN [acc EXCEPT !.output_file_header = t[2]]
    ELSE IF lower(t[1]) = K_output_file_format
    THEN [acc EXCEPT !.output_file_format = t[2]]
    ELSE IF lower(t[1]) = K_package_flows
    THEN [acc EXCEPT !.package_flows = @ \o Tail(t)]
    ELSE [acc EXCEPT !.output_file_name = t[2]]

\* a faulty lines 198-210: only the first flow of a package_flows line is kept
load_tokens_firstonly(acc, t) ==
    IF lower(t[1]) = K_output_file_name
    THEN [acc EXCEPT !.output_file_name = t[2]]
    ELSE IF lower(t[1]) = K_output_file_unit
    THEN IF int_ok(t[2])
         THEN [acc EXCEPT !.output_file_unit = int(t[2])]
         ELSE [acc EXCEPT !.err = "ValueError"]
    ELSE IF lower(t[1]) = K_output_file_header
    THEN [acc EXCEPT !.output_file_header = t[2]]
    ELSE IF lower(t[1]) = K_output_file_format
    THEN [acc EXCEPT !.output_file_format = t[2]]
    ELSE IF lower(t[1]) = K_package_flows
    THEN [acc EXCEPT !.package_flows = @ \o <<t[2]>>]
    ELSE acc

\* lines 198-210: the dispatch on the first token of a line of tokens t
load_tokens(acc, t) ==
    IF lower(t[1]) = K_output_file_name
    THEN [acc EXCEPT !.output_file_name = t[2]]
    ELSE IF lower(t[1]) = K_output_file_unit
    THEN IF int_ok(t[2])
         THEN [acc EXCEPT !.output_file_unit = int(t[2])]
         ELSE [acc EXCEPT !.err = "ValueError"]
    ELSE IF lower(t[1]) = K_output_file_header
    THEN [acc EXCEPT !.output_file_header = t[2]]
    ELSE IF lower(t[1]) = K_output_file_format
    THEN [acc EXCEPT !.output_file_format = t[2]]
    ELSE IF lower(t[1]) = K_package_flows
    THEN [acc EXCEPT !.package_flows = @ \o Tail(t)]
    ELSE acc

\* lines 193-197: the lines the loop skips
load_line(acc, line) ==
    IF line[1] = "#" THEN acc
    ELSE With(split(strip(line)), LAMBDA t :
            IF Len(t) < 2 THEN acc ELSE load_tokens(acc, t))

\* lines 192-210: the loop; an exception ends it
RECURSIVE load_lines(_, _)
load_lines(acc, lines) ==
    IF lines = <<>> \/ acc.err # "" THEN acc
    ELSE With(load_line(acc, Head(lines)), LAMBDA acc1 :
            load_lines(acc1, Tail(lines)))

\* lines 180-210 for the text of the file at path f
load_parse(f, text) == load_lines(load_defaults(f), readlines(text))

(***************************************************************************)
(* Inputs: the paths, the lines of input decks, the constructor calls.     *)
(***************************************************************************)
P_m_lmt == <<"m", ".", "l", "m", "t">>
P_run == <<"d", ".", "x", "/", "r", "u", "n">>
P_a_b_lmt == <<"a", ".", "b", ".", "l", "m", "t">>
P_ext == <<"e", "x", "t", ".", "l", "m", "t">>
P_my == <<"m", "y", ".", "l", "m", "t">>
P_default == S_modelname \o <<".">> \o S_lmt6

InPaths == {P_m_lmt, P_run, P_a_b_lmt}
Paths == InPaths \cup {P_ext, P_my, P_default}

L_comment == <<"#", " ", "c", "\n">>
L_blank == <<"\n">>
L_unknown ==
    <<"S", "O", "M", "E", "_", "U", "N", "K", "N", "O", "W", "N", "_", "K", "E", "Y", " ", "v", "a", "l", "u", "e", "\n">>
L_name ==
    <<"O", "U", "T", "P", "U", "T", "_", "F", "I", "L", "E", "_", "N", "A", "M", "E", " ", "a", ".", "f", "t", "l", "\n">>
L_name_lc ==
    <<"o", "u", "t", "p", "u", "t", "_", "f", "i", "l", "e", "_", "n", "a", "m", "e", " ", "B", " ", "x", "\n">>
L_unit_neg ==
    <<" ", " ", "O", "u", "t", "p", "u", "t", "_", "F", "i", "l", "e", "_", "U", "n", "i", "t", " ", "-", "3", " ", "z", "\n">>
L_unit_bad ==
    <<"O", "U", "T", "P", "U", "T", "_", "F", "I", "L", "E", "_", "U", "N", "I", "T", " ", "n", "o", "t", "a", "n", "u", "m", "b", "e", "r", "\n">>
L_header ==
    <<"O", "U", "T", "P", "U", "T", "_", "F", "I", "L", "E", "_", "H", "E", "A", "D", "E", "R", " ", "e", "x", "t", "e", "n", "d", "e", "d", "\n">>
L_format ==
    <<"O", "U", "T", "P", "U", "T", "_", "F", "I", "L", "E", "_", "F", "O", "R", "M", "A", "T", " ", "f", "o", "r", "m", "a", "t", "t", "e", "d", "\n">>
L_flows ==
    <<"P", "A", "C", "K", "A", "G", "E", "_", "F", "L", "O", "W", "S", " ", "U", "Z", "F", " ", "s", "f", "r", "\n">>
L_flows_lc ==
    <<"p", "a", "c", "k", "a", "g", "e", "_", "f", "l", "o", "w", "s", " ", "F", "O", "O", " ", "L", "a", "k", "\n">>
L_unit_only ==
    <<"O", "U", "T", "P", "U", "T", "_", "F", "I", "L", "E", "_", "U", "N", "I", "T", "\n">>

\* lines load skips: a comment, fewer than two tokens, an unrecognized key
IgnoredLines == {L_comment, L_blank, L_unit_only, L_unknown}
\* lines whose output_file_unit value int() refuses
MalformedLines == {L_unit_bad}
LineSet ==
    IgnoredLines \cup MalformedLines
    \cup {L_name, L_name_lc, L_unit_neg, L_header, L_format, L_flows, L_flows_lc}

\* the texts of at most n lines of LineSet
RECURSIVE Decks(_)
Decks(n) ==
    IF n = 0 THEN {<<>>}
    ELSE Decks(n - 1) \cup {d \o l : d \in Decks(n - 1), l \in LineSet}

S_x_ftl == <<"x", ".", "f", "t", "l">>
S_my_f_ftl == <<"m", "y", " ", "f", ".", "f", "t", "l">>
S_formatted == <<"f", "o", "r", "m", "a", "t", "t", "e", "d">>
S_UZF == <<"U", "Z", "F">>
S_SFR == <<"S", "F", "R">>
S_LAK == <<"L", "A", "K">>
S_Uzf == <<"U", "z", "f">>
S_Lak == <<"L", "a", "k">>
S_FOO == <<"F", "O", "O">>

\* the defaults of __init__'s optional parameters (lines 70-73); the default
\* of package_flows is one list object, made when the function is defined
DefaultList == 1
init_defaults ==
    [output_file_name   |-> S_mt3d_link_ftl,
     output_file_unit   |-> InitDefaultUnit,
     output_file_header |-> S_extended,
     output_file_format |-> S_unformatted,
     extension          |-> S_lmt6,
     package_flows      |-> None,
     unitnumber         |-> None,
     filenames          |-> FnNone]

\* constructor calls that supply optional parameters; package_flows is None
\* (parameter left out) or the content of a list the caller makes for the call
InitArgs1 ==
    [init_defaults EXCEPT !.output_file_name = S_x_ftl,
                          !.output_file_unit = -7,
                          !.output_file_header = S_standard,
                          !.output_file_format = S_formatted,
                          !.package_flows = Some(<<S_UZF, S_SFR>>),
                          !.unitnumber = Some(31),
                          !.filenames = FnStr(P_my)]
InitArgs2 ==
    [init_defaults EXCEPT !.output_file_name = S_my_f_ftl,
                          !.package_flows = Some(<<S_Lak>>)]
InitArgs3 ==
    [init_defaults EXCEPT !.output_file_name = <<>>]
InitArgs == {InitArgs1, InitArgs2, InitArgs3}

\* tokens a caller adds in place to a package_flows list
AppendTokens == {S_sfr, S_LAK, S_Uzf, S_FOO}

\* the external unit tables a caller passes to load
ExtUnitDicts ==
    {None,
     Some({[filetype |-> ftype, unit |-> 31, filename |-> P_ext]}),
     Some({})}

(***************************************************************************)
(* State.                                                                  *)
(***************************************************************************)
VARIABLES
    fs,          \* the file system: the text at each path, None where no file is
    lmts,        \* the ModflowLmt objects, in the order of their construction
    lists,       \* the list objects; lists[DefaultList] is __init__'s default
    packagelist, \* the owning model's package list (object identities)
    handles,     \* the file handles this class opened that are still open
    out          \* the last call: its arguments, its exception, its result

vars == <<fs, lmts, lists, packagelist, handles, out>>

NoF == [kind |-> "none", path |-> <<>>]
Filename(p) == [kind |-> "filename", path |-> p]
Handle(p) == [kind |-> "handle", path |-> p]

Call(op, f, self, err, ret, dflt) ==
    [op |-> op, f |-> f, self |-> self, err |-> err, ret |-> ret, dflt |-> dflt]

\* the content of the package_flows list of object i
flows_of(i) == lists[lmts[i].package_flows]

NoCall == Call("none", NoF, 0, "", None, FALSE)

\* a model without packages; two input decks on disk, the second malformed
Init ==
    /\ fs = [p \in Paths |->
                IF p = P_m_lmt THEN Some(L_unit_neg \o L_flows_lc)
                ELSE IF p = P_a_b_lmt THEN Some(L_unit_bad)
                ELSE None]
    /\ lmts = <<>>
    /\ lists = << <<>> >>
    /\ packagelist = <<>>
    /\ handles = {}
    /\ out = NoCall

(***************************************************************************)
(* Operations.                                                             *)
(***************************************************************************)
\* lines 94-107: the new object joins the objects and the package list
construct(self, newlists, f, dflt) ==
    /\ Len(lmts) < MaxLmts
    /\ lmts' = Append(lmts, self)
    /\ lists' = newlists
    /\ packagelist' = parent_add_package(packagelist, Len(lmts) + 1)
    /\ out' = Call(IF f = NoF THEN "__init__" ELSE "load", f, 0, "",
                   Some(Len(lmts) + 1), dflt)

\* ModflowLmt(model): every optional parameter left out
Init_default ==
    /\ construct(ModflowLmt(init_defaults.output_file_name,
                            init_defaults.output_file_unit,
                            init_defaults.output_file_header,
                            init_defaults.output_file_format,
                            init_defaults.extension,
                            DefaultList,
                            init_defaults.unitnumber,
                            init_defaults.filenames),
                 lists, NoF, TRUE)
    /\ UNCHANGED <<fs, handles>>

\* ModflowLmt(model, ...): optional parameters supplied
Init_args(a) ==
    /\ construct(ModflowLmt(a.output_file_name, a.output_file_unit,
                            a.output_file_header, a.output_file_format,
                            a.extension,
                            IF a.package_flows = None
                            THEN DefaultList ELSE Len(lists) + 1,
                            a.unitnumber, a.filenames),
                 IF a.package_flows = None
                 THEN lists ELSE Append(lists, a.package_flows[1]),
                 NoF, FALSE)
    /\ UNCHANGED <<fs, handles>>

\* lmt.package_flows.append(tok), by a caller
package_flows_append(i, tok) ==
    /\ Len(flows_of(i)) < MaxFlows
    /\ lists' = [lists EXCEPT ![lmts[i].package_flows] = Append(@, tok)]
    /\ out' = Call("append", NoF, i, "", None, FALSE)
    /\ UNCHANGED <<fs, lmts, packagelist, handles>>

\* lmt.write_file(): open, write, close
write_file(i) ==
    /\ fs' = [fs EXCEPT ![lmts[i].fn_path] = Some(write_text(lmts[i], flows_of(i)))]
    /\ out' = Call("write_file", NoF, i, "", None, FALSE)
    /\ UNCHANGED <<lmts, lists, packagelist, handles>>

\* a call that raises: nothing is constructed
raise(f, err) ==
    /\ out' = Call("load", f, 0, err, None, FALSE)
    /\ UNCHANGED <<fs, lmts, lists, packagelist>>

\* lines 213-227: the constructor call that ends load
load_construct(f, acc, ext_unit_dict) ==
    LET found == IF ext_unit_dict # None
                 THEN get_ext_dict_attr(ext_unit_dict[1], ftype)
                 ELSE <<None, None>>
    IN  construct(ModflowLmt(acc.output_file_name, acc.output_file_unit,
                             acc.output_file_header, acc.output_file_format,
                             init_defaults.extension, Len(lists) + 1,
                             found[1], FnList(<<found[2]>>)),
                  Append(lists, acc.package_flows), f, FALSE)

\* ModflowLmt.load(f, model, ext_unit_dict).  A handle f has no basename
\* (line 180 raises, a TypeError under Python 3); open (line 190) raises for
\* a path with no file.  load
\* never closes the handle it opens: the handle lives until the runtime
\* reclaims it, at the return or later.
load(f, ext_unit_dict) ==
    IF f.kind = "handle"
    THEN /\ fs[f.path] # None
         /\ raise(f, "TypeError")
         /\ UNCHANGED handles
    ELSE IF fs[f.path] = None
    THEN /\ raise(f, "IOError")
         /\ UNCHANGED handles
    ELSE \E acc \in {load_parse(f.path, fs[f.path][1])} :
             /\ \E reclaimed \in BOOLEAN :
                  handles' = IF reclaimed THEN handles
                             ELSE handles \cup {[by |-> "load", path |-> f.path]}
             /\ IF acc.err # ""
                THEN raise(f, acc.err)
                ELSE /\ load_construct(f, acc, ext_unit_dict)
                     /\ UNCHANGED fs

\* ModflowLmt.ftype()
ftype_call ==
    /\ out' = Call("ftype", NoF, 0, "", Some(ftype), FALSE)
    /\ UNCHANGED <<fs, lmts, lists, packagelist, handles>>

\* ModflowLmt.defaultunit()
defaultunit_call ==
    /\ out' = Call("defaultunit", NoF, 0, "", Some(defaultunit), FALSE)
    /\ UNCHANGED <<fs, lmts, lists, packagelist, handles>>

Next ==
    \/ Init_default
    \/ \E a \in {InitArgs1} : Init_args(a)
    \/ \E i \in DOMAIN lmts : package_flows_append(i, S_sfr)
    \/ \E i \in DOMAIN lmts : write_file(i)
    \/ \E p \in {P_m_lmt, P_a_b_lmt} : load(Filename(p), None)
    \/ load(Handle(P_m_lmt), None)
    \/ ftype_call
    \/ defaultunit_call

Spec == Init /\ [][Next]_vars

(***************************************************************************)
(* load applied to generated decks: a model that holds one default package *)
(* loads one deck, found under two names.                                  *)
(***************************************************************************)
InitLoad ==
    /\ \E d \in Decks(MaxLines) :
          fs = [p \in Paths |-> IF p \in {P_run, P_a_b_lmt} THEN Some(d) ELSE None]
    /\ lmts = <<ModflowLmt(init_defaults.output_file_name,
                           init_defaults.output_file_unit,
                           init_defaults.output_file_header,
                           init_defaults.output_file_format,
                           init_defaults.extension, DefaultList,
                           init_defaults.unitnumber, init_defaults.filenames)>>
    /\ lists = << <<>> >>
    /\ packagelist = parent_add_package(<<>>, 1)
    /\ handles = {}
    /\ out = NoCall

\* no load has returned an object yet
Fresh == out.op = "none" \/ (out.op = "load" /\ out.err # "")

NextLoad ==
    \/ Fresh /\ \E p \in {P_run, P_a_b_lmt}, e \in ExtUnitDicts : load(Filename(p), e)
    \/ Fresh /\ \E p \in {P_run, P_a_b_lmt} : load(Handle(p), None)

SpecLoad == InitLoad /\ [][NextLoad]_vars

(***************************************************************************)
(* write_file followed by load: one package is constructed, its            *)
(* package_flows extended in place, and then written and loaded back.      *)
(***************************************************************************)
InitRT ==
    /\ fs = [p \in Paths |-> None]
    /\ lmts = <<>>
    /\ lists = << <<>> >>
    /\ packagelist = <<>>
    /\ handles = {}
    /\ out = NoCall

NextRT ==
    \/ lmts = <<>> /\ Init_default
    \/ lmts = <<>> /\ \E a \in InitArgs : Init_args(a)
    \/ /\ out.op \in {"__init__", "append"}
       /\ \E tok \in AppendTokens : package_flows_append(1, tok)
    \/ \E i \in DOMAIN lmts : write_file(i)
    \/ /\ out.op = "write_file"
       /\ \E e \in ExtUnitDicts : load(Filename(lmts[out.self].fn_path), e)

SpecRT == InitRT /\ [][NextRT]_vars

(***************************************************************************)
(* Vocabulary of the properties.                                           *)
(***************************************************************************)
\* the four scalar settings of an object or of a parse result
Scalars(r) ==
    <<r.output_file_name, r.output_file_unit, r.output_file_header,
      r.output_file_format>>

RecognizedFlows == <<S_SFR, S_LAK, S_UZF>>
IsRecognized(tok) == \E k \in DOMAIN RecognizedFlows : lower(tok) = lower(RecognizedFlows[k])

\* the recognized members present in flows (any case), upper-cased, in the
\* canonical order SFR, LAK, UZF
CanonicalFlows(flows) ==
    SelectSeq(RecognizedFlows,
              LAMBDA r : \E i \in DOMAIN flows : lower(flows[i]) = lower(r))

\* the tokens of toks, each followed by one space
RECURSIVE Spaced(_)
Spaced(toks) ==
    IF toks = <<>> THEN <<>> ELSE Head(toks) \o <<" ">> \o Spaced(Tail(toks))

\* a non-empty string without whitespace
IsToken(s) == s # <<>> /\ \A i \in DOMAIN s : s[i] \notin Whitespace

\* an optional sign followed by decimal digits
IsIntegerToken(tok) ==
    /\ tok # <<>>
    /\ \A i \in DOMAIN tok :
          \/ tok[i] \in {Digits[d] : d \in DOMAIN Digits}
          \/ i = 1 /\ tok[i] \in {"+", "-"}
    /\ \E i \in DOMAIN tok : tok[i] \in {Digits[d] : d \in DOMAIN Digits}

\* the value of an integer token
RECURSIVE DecimalValue(_)
DecimalValue(tok) ==
    IF tok = <<>> THEN 0
    ELSE IF tok[1] = "-" THEN 0 - DecimalValue(Tail(tok))
    ELSE IF tok[1] = "+" THEN DecimalValue(Tail(tok))
    ELSE 10 * DecimalValue(SubSeq(tok, 1, Len(tok) - 1))
         + ((CHOOSE d \in DOMAIN Digits : Digits[d] = tok[Len(tok)]) - 1)

\* the keys load recognizes
Keys ==
    {K_output_file_name, K_output_file_unit, K_output_file_header,
     K_output_file_format, K_package_flows}

\* a line that is no comment, has at least two tokens and starts with key
Carries(line, key) ==
    /\ line[1] # "#"
    /\ With(split(line), LAMBDA t : Len(t) >= 2 /\ lower(t[1]) = key)

\* a line load is to ignore: a comment, fewer than two tokens, no recognized key
Ignorable(line) ==
    \/ line[1] = "#"
    \/ With(split(line), LAMBDA t : Len(t) < 2 \/ lower(t[1]) \notin Keys)

\* a line that gives output_file_unit something that is no integer
MalformedUnit(line) ==
    Carries(line, K_output_file_unit) /\ ~IsIntegerToken(split(line)[2])

\* the text load was given in the last call (load leaves the files alone)
LoadedText == fs[out.f.path][1]

\* the last call was a load of an existing file, by name or by handle
Loaded == out.op = "load" /\ fs[out.f.path] # None

\* the object the last call returned
Returned == lmts[out.ret[1]]

\* text without its k-th line
RECURSIVE Flatten(_)
Flatten(ls) == IF ls = <<>> THEN <<>> ELSE Head(ls) \o Flatten(Tail(ls))
WithoutLine(text, k) ==
    With(readlines(text), LAMBDA ls :
        Flatten(SubSeq(ls, 1, k - 1) \o SubSeq(ls, k + 1, Len(ls))))

(***************************************************************************)
(* C1: write_file followed by load of the written file.                    *)
(***************************************************************************)
\* the step loads, by name, the file the preceding write_file wrote
LoadsBack ==
    /\ out.op = "write_file"
    /\ out'.op = "load"
    /\ out'.f = Filename(lmts[out.self].fn_path)

\* the loaded object has the writer's scalars and, up to case, the canonical
\* subset of the writer's package_flows
RoundTrip ==
    /\ out'.err = ""
    /\ out'.ret # None
    /\ Scalars(lmts'[out'.ret[1]]) = Scalars(lmts[out.self])
    /\ [i \in DOMAIN lists'[lmts'[out'.ret[1]].package_flows] |->
           lower(lists'[lmts'[out'.ret[1]].package_flows][i])]
       = [i \in DOMAIN CanonicalFlows(flows_of(out.self)) |->
             lower(CanonicalFlows(flows_of(out.self))[i])]

AllRecognized(flows) == \A i \in DOMAIN flows : IsRecognized(flows[i])

\* C1 as stated: for every config whose packageFlows holds only recognized
\* tokens, write_file followed by load of the written file yields the same
\* outputFileName, outputFileUnit, outputFileHeader and outputFileFormat and
\* the canonical-order subset of packageFlows.
C1Original ==
    [][(LoadsBack /\ AllRecognized(flows_of(out.self))) => RoundTrip]_vars

\* C1 as amended: the same, for every config whose outputFileName,
\* outputFileHeader and outputFileFormat are non-empty and hold no whitespace.
C1Theorem ==
    [][(/\ LoadsBack
        /\ AllRecognized(flows_of(out.self))
        /\ IsToken(lmts[out.self].output_file_name)
        /\ IsToken(lmts[out.self].output_file_header)
        /\ IsToken(lmts[out.self].output_file_format)) => RoundTrip]_vars

\* a package constructed with [UZF, SFR] was written and loaded back
C1Witness ==
    /\ out.op = "load"
    /\ out.err = ""
    /\ Len(lmts) = 2
    /\ out.f.path = lmts[1].fn_path
    /\ flows_of(1) = <<S_UZF, S_SFR>>
    /\ flows_of(2) = <<S_SFR, S_UZF>>
    /\ Scalars(lmts[2]) = Scalars(lmts[1])

(***************************************************************************)
(* C2: the PACKAGE_FLOWS line of write_file.                               *)
(***************************************************************************)
S_PACKAGE_FLOWS_SFR_UZF_ ==
    <<"P", "A", "C", "K", "A", "G", "E", "_", "F", "L", "O", "W", "S", " ", "S", "F", "R", " ", "U", "Z", "F", " ">>

\* the lines of text that start with PACKAGE_FLOWS, without their terminator
FlowsLines(text) ==
    LET found == SelectSeq(readlines(text),
                           LAMBDA l : /\ Len(l) >= Len(S_PACKAGE_FLOWS_)
                                      /\ SubSeq(l, 1, Len(S_PACKAGE_FLOWS_)) = S_PACKAGE_FLOWS_)
    IN  [k \in DOMAIN found |-> SubSeq(found[k], 1, Len(found[k]) - 1)]

\* C2: write_file emits a PACKAGE_FLOWS line exactly when packageFlows is
\* non-empty; the line is 'PACKAGE_FLOWS ' followed by the upper-cased
\* recognized members present (any case), each followed by one space, in the
\* order SFR, LAK, UZF whatever the order or repetition in packageFlows;
\* unrecognized members do not appear; [UZF, SFR] gives 'PACKAGE_FLOWS SFR UZF '.
C2Theorem ==
    out.op = "write_file" =>
        /\ flows_of(out.self) = <<>> =>
              FlowsLines(fs[lmts[out.self].fn_path][1]) = <<>>
        /\ flows_of(out.self) # <<>> =>
              FlowsLines(fs[lmts[out.self].fn_path][1])
                  = <<S_PACKAGE_FLOWS_ \o Spaced(CanonicalFlows(flows_of(out.self)))>>
        /\ flows_of(out.self) = <<S_UZF, S_SFR>> =>
              FlowsLines(fs[lmts[out.self].fn_path][1]) = <<S_PACKAGE_FLOWS_SFR_UZF_>>

\* a list with an unrecognized and a lower-case member was written
C2Witness ==
    /\ out.op = "write_file"
    /\ flows_of(out.self) = <<S_FOO, S_sfr>>
    /\ fs[lmts[out.self].fn_path] # None

(***************************************************************************)
(* C3, C4: load of well-formed input.                                      *)
(***************************************************************************)
\* C3: for a filename and for an already-open handle alike, and any
\* well-formed content, load completes without error and returns an object
\* whose fields are the values parsed from the source.
C3Original ==
    (Loaded /\ \A k \in DOMAIN readlines(LoadedText) :
                  ~MalformedUnit(readlines(LoadedText)[k]))
    => /\ out.err = ""
       /\ out.ret # None
       /\ Scalars(Returned) = Scalars(load_parse(out.f.path, LoadedText))
       /\ flows_of(out.ret[1]) = load_parse(out.f.path, LoadedText).package_flows

\* the base name of path with its extension, if it has one, replaced by .ftl
ExpectedDefaultName(path) ==
    (IF rfind(basename(path), ".") >= 0
     THEN SubSeq(basename(path), 1, rfind(basename(path), "."))
     ELSE basename(path)) \o S_ftl

\* C4: loading, by name, an input that is empty or holds only comment lines
\* is no error and yields unit 333, header 'standard', format 'unformatted',
\* no package flows and the base name of the input with its extension
\* replaced by '.ftl', also for base names without '.' or with several.
C4Original ==
    (/\ Loaded
     /\ out.f.kind = "filename"
     /\ \A k \in DOMAIN readlines(LoadedText) : readlines(LoadedText)[k][1] = "#")
    => /\ out.err = ""
       /\ out.ret # None
       /\ Returned.output_file_unit = 333
       /\ Returned.output_file_header = S_standard
       /\ Returned.output_file_format = S_unformatted
       /\ flows_of(out.ret[1]) = <<>>
       /\ Returned.output_file_name = ExpectedDefaultName(out.f.path)

(***************************************************************************)
(* C5: a malformed output_file_unit.                                       *)
(***************************************************************************)
\* some line of text gives output_file_unit something that is no integer
HasMalformedUnit(text) ==
    With(readlines(text), LAMBDA ls : \E k \in DOMAIN ls : MalformedUnit(ls[k]))

\* C5: if a non-comment line of the input has first token output_file_unit
\* (any case) and a second token that is no integer, then, wherever that line
\* is, load raises (int's ValueError for every input given by name, where the
\* lines are read), returns no object, sets no unit, and leaves the objects
\* and the model's package list as they were.
C5Theorem ==
    [][(/\ out'.op = "load"
        /\ fs[out'.f.path] # None
        /\ HasMalformedUnit(fs[out'.f.path][1]))
       => /\ out'.err \in {"ValueError", "TypeError"}
          /\ out'.f.kind = "filename" => out'.err = "ValueError"
          /\ out'.ret = None
          /\ lmts' = lmts
          /\ lists' = lists
          /\ packagelist' = packagelist]_vars

\* a deck whose last line is malformed was loaded into a model with a package
C5Witness ==
    /\ out.op = "load"
    /\ out.err = "ValueError"
    /\ LoadedText = L_name \o L_unit_bad
    /\ packagelist = <<1>>
    /\ Len(lmts) = 1

(***************************************************************************)
(* C6: ignored lines.                                                      *)
(***************************************************************************)
\* the outcome of the last load: its exception and, if none, the fields
Outcome ==
    IF out.err # "" THEN <<out.err>>
    ELSE <<out.err, Scalars(Returned), flows_of(out.ret[1])>>

\* the outcome of parsing text found at path
ParseOutcome(path, text) ==
    With(load_parse(path, text), LAMBDA r :
        IF r.err # "" THEN <<r.err>> ELSE <<"", Scalars(r), r.package_flows>>)

\* C6: a line that starts with '#', has fewer than two tokens or starts with
\* an unrecognized key, at any position of an input, raises no error and
\* leaves every field as loading the input without that line leaves it.
C6Theorem ==
    (Loaded /\ out.f.kind = "filename") =>
        With(readlines(LoadedText), LAMBDA ls :
            \A k \in DOMAIN ls :
                Ignorable(ls[k])
                => Outcome = ParseOutcome(out.f.path, WithoutLine(LoadedText, k)))

\* a deck with an unrecognized key before a recognized line was loaded
C6Witness ==
    /\ out.op = "load"
    /\ out.err = ""
    /\ out.f.kind = "filename"
    /\ LoadedText = L_unknown \o L_name_lc
    /\ Returned.output_file_name = <<"B">>

(***************************************************************************)
(* C9: recognized lines, in file order.                                    *)
(***************************************************************************)
\* the indices of the lines of text that carry key
Carriers(text, key) ==
    {k \in DOMAIN readlines(text) : Carries(readlines(text)[k], key)}

\* the second token of the last line of text that carries key
LastValue(text, key) ==
    split(readlines(text)[CHOOSE k \in Carriers(text, key) :
                              \A j \in Carriers(text, key) : j <= k])[2]

\* every token after the first of the package_flows lines, in file order
RECURSIVE FlowTokens(_)
FlowTokens(ls) ==
    IF ls = <<>> THEN <<>>
    ELSE (IF Carries(Head(ls), K_package_flows) THEN Tail(split(Head(ls))) ELSE <<>>)
         \o FlowTokens(Tail(ls))

\* C9: each of output_file_name, output_file_unit, output_file_header and
\* output_file_format takes the second token of the last line carrying the
\* key (any case), further tokens ignored, output_file_unit as an integer;
\* packageFlows is, verbatim and in file order, every token after the first
\* of every package_flows line.
C9Theorem ==
    (Loaded /\ out.err = "" /\ out.ret # None) =>
        /\ Carriers(LoadedText, K_output_file_name) # {} =>
              Returned.output_file_name = LastValue(LoadedText, K_output_file_name)
        /\ Carriers(LoadedText, K_output_file_unit) # {} =>
              Returned.output_file_unit
                  = DecimalValue(LastValue(LoadedText, K_output_file_unit))
        /\ Carriers(LoadedText, K_output_file_header) # {} =>
              Returned.output_file_header = LastValue(LoadedText, K_output_file_header)
        /\ Carriers(LoadedText, K_output_file_format) # {} =>
              Returned.output_file_format = LastValue(LoadedText, K_output_file_format)
        /\ flows_of(out.ret[1]) = FlowTokens(readlines(LoadedText))

\* two package_flows lines were loaded
C9Witness ==
    /\ out.op = "load"
    /\ out.err = ""
    /\ LoadedText = L_flows \o L_flows_lc
    /\ flows_of(out.ret[1]) = <<S_UZF, S_sfr, S_FOO, S_Lak>>

(***************************************************************************)
(* C7, C8, C10: the life of the packages of one model.                     *)
(***************************************************************************)
\* C7: every construction that supplies no optional parameter yields
\* 'mt3d_link.ftl', 54, 'extended', 'unformatted', [] and unit number 30,
\* whatever was constructed, loaded, written or added in place before.
C7Original ==
    (out.op = "__init__" /\ out.dflt) =>
        /\ Returned.output_file_name = S_mt3d_link_ftl
        /\ Returned.output_file_unit = 54
        /\ Returned.output_file_header = S_extended
        /\ Returned.output_file_format = S_unformatted
        /\ flows_of(out.ret[1]) = <<>>
        /\ Returned.unit_number = <<30>>

\* C8: after load returns or fails and after write_file returns, no handle
\* the operation opened is still open.
C8Original == out.op \in {"load", "write_file"} => handles = {}

\* C10: the package list holds every constructed object, direct or loaded,
\* exactly once and nothing else, after any sequence of operations.
C10Theorem == packagelist = [i \in 1..Len(lmts) |-> i]

\* a direct and a loaded package are registered, the direct one was written,
\* and an accessor was called
C10Witness ==
    /\ out.op = "ftype"
    /\ Len(lmts) = 2
    /\ lmts[1].output_file_unit = 54
    /\ lmts[2].output_file_unit = -3
    /\ fs[P_default] # None
    /\ packagelist = <<1, 2>>
====
